---- MODULE Spec2Model ----
(***************************************************************************)
(* Model of the chain-state engine of decentraland-core                   *)
(* (src/lib/blockchain.js): the block tree, the cumulative-work fork      *)
(* choice, confirm / unconfirm / prune and the pixel map.                 *)
(*                                                                         *)
(* JavaScript objects used as maps (work, prev, height, next,             *)
(* hashByHeight, pixels) are TLA+ functions with a finite domain; a       *)
(* lookup of an absent key yields UNDEF (JavaScript's undefined), and     *)
(* arithmetic on UNDEF yields NAN.  Hashes are integers: NULL is the      *)
(* all-zero hash, a block hash is a positive integer.  A block's hash     *)
(* depends on its nonce and time, so distinct blocks get distinct hashes; *)
(* the model gives every new block the next unused hash.                  *)
(*                                                                         *)
(* Besides the engine the module models the getBlockLocator call, loop    *)
(* iteration by loop iteration (locator), one Block with its header       *)
(* (blockObj: src/lib/block/block.js, blockheader.js) and one Transaction *)
(* under construction (txObj: src/lib/transaction/transaction.js).  ret   *)
(* is the outcome of the last call made on any of them, emitted the list  *)
(* of events the engine has emitted to its listeners.                     *)
(***************************************************************************)
EXTENDS Integers, Sequences, FiniteSets, TLC

(* ------------------------------ bounds -------------------------------- *)
MaxBlocks == 3
MaxX == 1
MaxY == 1
NumKeys == 2
MaxTransfers == 1
MaxLocatorBlocks == 30
MaxBlockTxs == 5
MaxNonce == 2
MaxMainBlocks == 102

(* --------------------------- program values --------------------------- *)
NULL == 0
MAX_REWIND == 100
UNDEF == 0 - 10
NAN == 0 - 20
BlockObject == 0 - 30
UnknownHash == 0 - 40
NoSig == 0
NoOwner == 0
CURRENT_VERSION == 1
DEFAULT_BITS == 545259519

Keys == 1..NumKeys
Sigs == Keys \cup {NoSig}
Positions == {[x |-> i, y |-> j] : i \in 0..MaxX, j \in 0..MaxY}
HeightFields == {0, 1}

VARIABLES tip, work, prev, prevKeys, height, next, hashByHeight, pixels,
          blockStore, txStore, ret, locator, blockObj, txObj, emitted

idx == <<tip, work, prev, prevKeys, height, next, hashByHeight, pixels>>
engineVars == <<tip, work, prev, prevKeys, height, next, hashByHeight, pixels,
                blockStore, txStore, ret, emitted>>
vars == <<tip, work, prev, prevKeys, height, next, hashByHeight, pixels,
          blockStore, txStore, ret, locator, blockObj, txObj, emitted>>

(* ------------------------- JavaScript objects ------------------------- *)
Get(m, k) == IF k \in DOMAIN m THEN m[k] ELSE UNDEF
Put(m, k, v) == [q \in (DOMAIN m) \cup {k} |-> IF q = k THEN v ELSE m[q]]
Del(m, k) == [q \in (DOMAIN m) \ {k} |-> m[q]]
Range(f) == {f[q] : q \in DOMAIN f}
Plus(a, b) == IF a \in {UNDEF, NAN} \/ b \in {UNDEF, NAN} THEN NAN ELSE a + b
Greater(a, b) == IF a \in {UNDEF, NAN} \/ b \in {UNDEF, NAN} THEN FALSE ELSE a > b
Falsy(v) == v \in {UNDEF, NAN, 0}
AppendKey(keys, k) == IF \E i \in 1..Len(keys) : keys[i] = k THEN keys ELSE Append(keys, k)
RemoveKey(keys, k) == SelectSeq(keys, LAMBDA q : q # k)
Reverse(s) == [i \in 1..Len(s) |-> s[Len(s) + 1 - i]]

(* ------------------------- blockchain.js 17-28 ------------------------ *)
neighbors(pos) ==
  << [x |-> pos.x - 1, y |-> pos.y],
     [x |-> pos.x + 1, y |-> pos.y],
     [x |-> pos.x, y |-> pos.y - 1],
     [x |-> pos.x, y |-> pos.y + 1] >>

posToString(pos) == <<pos.x, pos.y>>

getWork(hash) == 1

(* ----------------------------- transactions --------------------------- *)
\* the id of a transaction is a hash of its serialized fields
TxId(tx) ==
  1 + tx.signature + (NumKeys + 1) * (tx.owner + (NumKeys + 1) *
      (tx.position.y + (MaxY + 1) * (tx.position.x + (MaxX + 1) * tx.input)))

\* a signature is identified with the key whose private half made it over
\* the transaction's sighash digest; NoSig is an absent signature
SighashVerify(tx, signature, owner) == signature # NoSig /\ signature = owner

(* ------------------------------ the engine ---------------------------- *)
\* the Blockchain object: its index maps, the pixel map and the two stores
Engine ==
  [tip |-> tip, work |-> work, prev |-> prev, prevKeys |-> prevKeys,
   height |-> height, next |-> next, hashByHeight |-> hashByHeight,
   pixels |-> pixels, blockStore |-> blockStore, txStore |-> txStore]

\* faulty variant: the signature is verified against the new owner, not the holder's
RECURSIVE verifyLoopAgainstNewOwner(_, _, _, _)
verifyLoopAgainstNewOwner(e, txs, i, prevTx) ==
  IF i > Len(txs) THEN "ok"
  ELSE LET tx == txs[i]
           pos == posToString(tx.position)
           prevTx1 == IF pos \in DOMAIN prevTx THEN prevTx
                      ELSE IF pos \in DOMAIN e.pixels
                           THEN Put(prevTx, pos, e.pixels[pos])
                           ELSE prevTx
       IN IF pos \notin DOMAIN prevTx1 THEN "TypeError"
          ELSE IF ~SighashVerify(tx, tx.signature, tx.owner)
               THEN "SignatureMismatch"
               ELSE verifyLoopAgainstNewOwner(e, txs, i + 1, Put(prevTx1, pos, tx))

\* faulty variant: a transaction at a position nobody holds is let through
RECURSIVE verifyLoopAllowingUnheldPosition(_, _, _, _)
verifyLoopAllowingUnheldPosition(e, txs, i, prevTx) ==
  IF i > Len(txs) THEN "ok"
  ELSE LET tx == txs[i]
           pos == posToString(tx.position)
           prevTx1 == IF pos \in DOMAIN prevTx THEN prevTx
                      ELSE IF pos \in DOMAIN e.pixels
                           THEN Put(prevTx, pos, e.pixels[pos])
                           ELSE prevTx
       IN IF pos \notin DOMAIN prevTx1
          THEN verifyLoopAllowingUnheldPosition(e, txs, i + 1, Put(prevTx1, pos, tx))
          ELSE IF ~SighashVerify(tx, tx.signature, prevTx1[pos].owner)
               THEN "SignatureMismatch"
               ELSE verifyLoopAllowingUnheldPosition(e, txs, i + 1, Put(prevTx1, pos, tx))

\* blockchain.js 122-134: the signature loop over transactions 2..n
\* (1-based); prevTx is the scratch map, keyed by posToString
RECURSIVE verifyLoop(_, _, _, _)
verifyLoop(e, txs, i, prevTx) ==
  IF i > Len(txs) THEN "ok"
  ELSE LET tx == txs[i]
           pos == posToString(tx.position)
           prevTx1 == IF pos \in DOMAIN prevTx THEN prevTx
                      ELSE IF pos \in DOMAIN e.pixels
                           THEN Put(prevTx, pos, e.pixels[pos])
                           ELSE prevTx
       IN IF pos \notin DOMAIN prevTx1 THEN "TypeError"
          ELSE IF ~SighashVerify(tx, tx.signature, prevTx1[pos].owner)
               THEN "SignatureMismatch"
               ELSE verifyLoop(e, txs, i + 1, Put(prevTx1, pos, tx))

\* faulty variant: the test for an already mined coinbase pixel is missing
checkValidBlockWithoutMinedTest(e, block) ==
  IF Get(e.work, block.prevHash) = UNDEF THEN "UnknownParent"
  ELSE IF Len(block.transactions) = 0 THEN "TypeError"
  ELSE LET coinbase == block.transactions[1]
           coinbasePos == posToString(coinbase.position)
           neighborList == neighbors(coinbase.position)
           adjacent == block.height = 0 \/
                       \E i \in 1..Len(neighborList) :
                          posToString(neighborList[i]) \in DOMAIN e.pixels
       IN IF ~adjacent THEN "NonAdjacent"
          ELSE verifyLoop(e, block.transactions, 2,
                          Put(<<>>, coinbasePos, coinbase))

\* blockchain.js 100-136; the result is "ok" or the error that is thrown
checkValidBlock(e, block) ==
  IF Get(e.work, block.prevHash) = UNDEF THEN "UnknownParent"
  ELSE IF Len(block.transactions) = 0 THEN "TypeError"
  ELSE LET coinbase == block.transactions[1]
           coinbasePos == posToString(coinbase.position)
           neighborList == neighbors(coinbase.position)
           adjacent == block.height = 0 \/
                       \E i \in 1..Len(neighborList) :
                          posToString(neighborList[i]) \in DOMAIN e.pixels
       IN IF coinbasePos \in DOMAIN e.pixels THEN "PixelAlreadyMined"
          ELSE IF ~adjacent THEN "NonAdjacent"
          ELSE verifyLoop(e, block.transactions, 2,
                          Put(<<>>, coinbasePos, coinbase))

\* faulty variant: the catch clause does not return false
isValidBlockSwallowingError(e, block) == TRUE

\* blockchain.js 90-98
isValidBlock(e, block) == checkValidBlock(e, block) = "ok"

hasData(e, hash) == IF hash = NULL THEN TRUE ELSE Get(e.work, hash) # UNDEF

\* blockchain.js 230-238: _.each hands the callback the value first, so
\* "key" is the parent hash stored under each key of prev; the keys are
\* visited in insertion order and each value is read when it is visited
RECURSIVE pruneEach(_, _, _)
pruneEach(e, keys, i) ==
  IF i > Len(keys) THEN e
  ELSE LET key == Get(e.prev, keys[i])
           e1 == IF Falsy(Get(e.height, key))
                 THEN [e EXCEPT !.prev = Del(@, key),
                                !.work = Del(@, key),
                                !.prevKeys = RemoveKey(@, key)]
                 ELSE e
       IN pruneEach(e1, keys, i + 1)

prune(e) == pruneEach(e, e.prevKeys, 1)

\* faulty variant: the work of a block already recorded is added to
addHashReferencesAccumulating(e, block) ==
  [e EXCEPT !.work = Put(@, block.hash,
                         Plus(IF block.hash \in DOMAIN e.work
                              THEN e.work[block.hash]
                              ELSE Get(e.work, block.prevHash),
                              getWork(block.hash))),
            !.prev = Put(@, block.hash, block.prevHash),
            !.prevKeys = AppendKey(@, block.hash)]

\* blockchain.js 68-76
addHashReferences(e, block) ==
  [e EXCEPT !.work = Put(@, block.hash,
                         Plus(Get(e.work, block.prevHash), getWork(block.hash))),
            !.prev = Put(@, block.hash, block.prevHash),
            !.prevKeys = AppendKey(@, block.hash)]

RECURSIVE saveTxToStore(_, _, _)
saveTxToStore(store, txs, i) ==
  IF i > Len(txs) THEN store
  ELSE saveTxToStore(Put(store, TxId(txs[i]), txs[i]), txs, i + 1)

saveBlockToStore(e, block) ==
  [e EXCEPT !.blockStore = Put(@, block.hash, block),
            !.txStore = saveTxToStore(@, block.transactions, 1)]

\* faulty variant: the loop over the transactions starts after the coinbase
RECURSIVE confirmPixelsAfterCoinbase(_, _, _)
confirmPixelsAfterCoinbase(px, txs, i) ==
  IF i > Len(txs) THEN px
  ELSE IF i = 1 THEN confirmPixelsAfterCoinbase(px, txs, 2)
  ELSE confirmPixelsAfterCoinbase(Put(px, posToString(txs[i].position), txs[i]),
                                  txs, i + 1)

\* blockchain.js 206-209
RECURSIVE confirmPixels(_, _, _)
confirmPixels(px, txs, i) ==
  IF i > Len(txs) THEN px
  ELSE confirmPixels(Put(px, posToString(txs[i].position), txs[i]), txs, i + 1)

confirm(e, block) ==
  LET hash == block.hash
      prevHash == Get(e.prev, hash)
  IN IF ~(prevHash # NULL \/ prevHash = e.tip)
     THEN [e |-> e, threw |-> TRUE]
     ELSE LET h == Plus(Get(e.height, prevHash), 1)
          IN [e |-> [e EXCEPT !.tip = hash,
                              !.next = Put(@, prevHash, hash),
                              !.hashByHeight = Put(@, h, hash),
                              !.height = Put(@, hash, h),
                              !.pixels = confirmPixels(@, block.transactions, 1)],
              threw |-> FALSE]

\* the argument is a hash, or BlockObject when a Block is passed instead
unconfirm(e, hash) ==
  LET prevHash == Get(e.prev, hash)
  IN IF hash # e.tip
     THEN [e |-> e, threw |-> TRUE]
     ELSE LET h == Get(e.height, hash)
          IN [e |-> [e EXCEPT !.tip = prevHash,
                              !.next = Del(@, prevHash),
                              !.hashByHeight = Del(@, h),
                              !.height = Del(@, hash)],
              threw |-> FALSE]

\* blockchain.js 143-148: walk back from hash to a block with a height;
\* the loop never ends once the pointer is undefined
RECURSIVE walkToConfirm(_, _, _)
walkToConfirm(e, pointer, acc) ==
  IF Get(e.height, pointer) # UNDEF
  THEN [list |-> acc, pointer |-> pointer, diverged |-> FALSE]
  ELSE IF pointer = UNDEF
       THEN [list |-> acc, pointer |-> pointer, diverged |-> TRUE]
       ELSE walkToConfirm(e, Get(e.prev, pointer), Append(acc, pointer))

\* blockchain.js 150-154: walk back from the tip to the common ancestor
RECURSIVE walkToUnconfirm(_, _, _, _)
walkToUnconfirm(e, pointer, commonAncestor, acc) ==
  IF pointer = commonAncestor
  THEN [list |-> acc, diverged |-> FALSE]
  ELSE IF pointer = UNDEF
       THEN [list |-> acc, diverged |-> TRUE]
       ELSE walkToUnconfirm(e, Get(e.prev, pointer), commonAncestor,
                            Append(acc, pointer))

\* faulty variant: unconfirm is called with the hash of the block
RECURSIVE unconfirmAllByHash(_, _, _)
unconfirmAllByHash(e, list, i) ==
  IF i > Len(list) THEN [e |-> e, threw |-> FALSE]
  ELSE LET r == unconfirm(e, list[i])
       IN IF r.threw THEN r ELSE unconfirmAllByHash(r.e, list, i + 1)

\* blockchain.js 157-159: unconfirm is called with the Block fetched from
\* the store, not with its hash
RECURSIVE unconfirmAll(_, _, _)
unconfirmAll(e, list, i) ==
  IF i > Len(list) THEN [e |-> e, threw |-> FALSE]
  ELSE LET r == unconfirm(e, BlockObject)
       IN IF r.threw THEN r ELSE unconfirmAll(r.e, list, i + 1)

\* blockchain.js 160-162
RECURSIVE confirmAll(_, _, _)
confirmAll(e, list, i) ==
  IF i > Len(list) THEN [e |-> e, threw |-> FALSE]
  ELSE LET r == confirm(e, e.blockStore[list[i]])
       IN IF r.threw THEN r ELSE confirmAll(r.e, list, i + 1)

Outcome(e, status, error, unconfirmed, confirmed) ==
  [e |-> e, status |-> status, error |-> error,
   unconfirmed |-> unconfirmed, confirmed |-> confirmed]

\* blockchain.js 138-167
appendNewBlock(e, hash) ==
  LET w1 == walkToConfirm(e, hash, <<>>)
      commonAncestor == w1.pointer
      w2 == walkToUnconfirm(e, e.tip, commonAncestor, <<>>)
      toConfirm == Reverse(w1.list)
      toUnconfirm == w2.list
      u == unconfirmAll(e, toUnconfirm, 1)
      c == confirmAll(u.e, toConfirm, 1)
  IN IF w1.diverged \/ w2.diverged THEN Outcome(e, "diverged", "ok", <<>>, <<>>)
     ELSE IF u.threw THEN Outcome(u.e, "raised", "ok", <<>>, <<>>)
     ELSE IF c.threw THEN Outcome(c.e, "raised", "ok", <<>>, <<>>)
     ELSE Outcome(c.e, "returned", "ok", toUnconfirm, toConfirm)

\* faulty variant: a block whose work ties with the tip's is appended too
proposeNewBlockAppendingOnTie(e, block) ==
  LET hash == block.hash
      error == checkValidBlock(e, block)
      e1 == addHashReferences(saveBlockToStore(e, block), block)
      w == Get(e1.work, hash)
      tipWork == Get(e1.work, e1.tip)
  IN IF ~isValidBlock(e, block) THEN Outcome(e, "rejected", error, <<>>, <<>>)
     ELSE IF ~hasData(e, block.prevHash) THEN Outcome(e, "rejected", "ok", <<>>, <<>>)
     ELSE IF w = UNDEF \/ tipWork = UNDEF THEN Outcome(e1, "raised", "ok", <<>>, <<>>)
     ELSE IF Greater(w, tipWork) \/ w = tipWork THEN appendNewBlock(e1, hash)
     ELSE Outcome(e1, "returned", "ok", <<>>, <<>>)

\* blockchain.js 169-190; status is "rejected" when the call raises before
\* anything is written, "raised" when it raises later, "returned" when it
\* returns its two lists, "diverged" when it never returns
proposeNewBlock(e, block) ==
  LET hash == block.hash
      error == checkValidBlock(e, block)
      e1 == addHashReferences(saveBlockToStore(e, block), block)
      w == Get(e1.work, hash)
      tipWork == Get(e1.work, e1.tip)
  IN IF ~isValidBlock(e, block) THEN Outcome(e, "rejected", error, <<>>, <<>>)
     ELSE IF ~hasData(e, block.prevHash) THEN Outcome(e, "rejected", "ok", <<>>, <<>>)
     ELSE IF w = UNDEF \/ tipWork = UNDEF THEN Outcome(e1, "raised", "ok", <<>>, <<>>)
     ELSE IF Greater(w, tipWork) THEN appendNewBlock(e1, hash)
     ELSE Outcome(e1, "returned", "ok", <<>>, <<>>)

(* ------------------------------- actions ------------------------------ *)
\* blockchain.js 30-48: the engine is an EventEmitter, and emitted is the
\* list of the events it has emitted to its listeners; no method of
\* blockchain.js calls emit, so installing the outcome of a call adds none
Install(e) ==
  /\ tip' = e.tip
  /\ work' = e.work
  /\ prev' = e.prev
  /\ prevKeys' = e.prevKeys
  /\ height' = e.height
  /\ next' = e.next
  /\ hashByHeight' = e.hashByHeight
  /\ pixels' = e.pixels
  /\ blockStore' = e.blockStore
  /\ txStore' = e.txStore
  /\ UNCHANGED <<locator, blockObj, txObj, emitted>>

\* ret is the outcome of the last call: which entry point, how it ended,
\* and whether its block was in the store before
ProposeNewBlock(block) ==
  /\ ret.status # "diverged"
  /\ LET r == proposeNewBlock(Engine, block)
     IN /\ Install(r.e)
        /\ ret' = [op |-> "proposeNewBlock", status |-> r.status,
                   known |-> block.hash \in DOMAIN blockStore]

\* blockchain.js 192-210, called by the owner of the engine
Confirm(block) ==
  /\ ret.status # "diverged"
  /\ LET r == confirm(Engine, block)
     IN /\ Install(r.e)
        /\ ret' = [op |-> "confirm",
                   status |-> IF r.threw THEN "raised" ELSE "returned",
                   known |-> TRUE]

\* blockchain.js 212-221, called by the owner of the engine with a hash
Unconfirm(hash) ==
  /\ ret.status # "diverged"
  /\ LET r == unconfirm(Engine, hash)
     IN /\ Install(r.e)
        /\ ret' = [op |-> "unconfirm",
                   status |-> IF r.threw THEN "raised" ELSE "returned",
                   known |-> TRUE]

\* blockchain.js 230-238
Prune ==
  /\ ret.status # "diverged"
  /\ Install(prune(Engine))
  /\ ret' = [op |-> "prune", status |-> "returned", known |-> FALSE]

(* ------------------------ snapshot and restore ------------------------ *)
\* blockchain.js 30-47: the engine the constructor builds
NewBlockchain ==
  [tip |-> NULL, work |-> Put(<<>>, NULL, 0), prev |-> <<>>, prevKeys |-> <<>>,
   height |-> Put(<<>>, NULL, 0 - 1), next |-> <<>>,
   hashByHeight |-> Put(<<>>, 0 - 1, NULL), pixels |-> <<>>,
   blockStore |-> <<>>, txStore |-> <<>>]

\* blockchain.js 240-249; prevKeys travels with prev, it is the order of
\* the keys of that object
toObject(e) ==
  [tip |-> e.tip, work |-> e.work, next |-> e.next,
   hashByHeight |-> e.hashByHeight, height |-> e.height,
   prev |-> e.prev, prevKeys |-> e.prevKeys]

\* blockchain.js 52-61: the six fields are copied into a new engine; its
\* pixels and its two stores are the ones the constructor made
fromObject(obj) ==
  [NewBlockchain EXCEPT !.tip = obj.tip,
                        !.work = obj.work,
                        !.hashByHeight = obj.hashByHeight,
                        !.height = obj.height,
                        !.next = obj.next,
                        !.prev = obj.prev,
                        !.prevKeys = obj.prevKeys]

(* --------------------------- getBlockLocator -------------------------- *)
\* the activation of a getBlockLocator call: where it is, the list built
\* so far and its three local variables
NoCall ==
  [pc |-> "idle", result |-> <<>>, currentHeight |-> 0,
   exponentialBackOff |-> 0, i |-> 0]

\* blockchain.js 256-262: the two checks, then the locals are initialised
GetBlockLocatorCall ==
  /\ locator.pc = "idle"
  /\ ret.status # "diverged"
  /\ locator' = IF tip # UNDEF /\ Get(height, tip) # UNDEF
                THEN [pc |-> "for", result |-> <<>>,
                      currentHeight |-> Get(height, tip),
                      exponentialBackOff |-> 1, i |-> 0]
                ELSE [NoCall EXCEPT !.pc = "raised"]
  /\ UNCHANGED <<engineVars, blockObj, txObj>>

\* blockchain.js 262-266: one iteration of the for loop
LocatorFor ==
  /\ locator.pc = "for"
  /\ locator' =
       [locator EXCEPT
          !.result = IF locator.currentHeight >= 0
                     THEN Append(@, Get(hashByHeight, locator.currentHeight))
                     ELSE @,
          !.currentHeight = IF locator.currentHeight >= 0 THEN @ - 1 ELSE @,
          !.i = @ + 1,
          !.pc = IF locator.i + 1 < 10 THEN "for" ELSE "while"]
  /\ UNCHANGED <<engineVars, blockObj, txObj>>

\* faulty variant: the gap is not doubled
LocatorWhileWithoutDoubling ==
  /\ locator.pc = "while"
  /\ locator.currentHeight > 0
  /\ locator' =
       [locator EXCEPT
          !.result = Append(@, Get(hashByHeight, locator.currentHeight)),
          !.currentHeight = @ - locator.exponentialBackOff]
  /\ UNCHANGED <<engineVars, blockObj, txObj>>

\* blockchain.js 267-271: one iteration of the while loop
LocatorWhile ==
  /\ locator.pc = "while"
  /\ locator.currentHeight > 0
  /\ locator' =
       [locator EXCEPT
          !.result = Append(@, Get(hashByHeight, locator.currentHeight)),
          !.currentHeight = @ - locator.exponentialBackOff,
          !.exponentialBackOff = @ * 2]
  /\ UNCHANGED <<engineVars, blockObj, txObj>>

\* blockchain.js 267, 272: the while condition fails and the list is returned
LocatorReturn ==
  /\ locator.pc = "while"
  /\ ~(locator.currentHeight > 0)
  /\ locator' = [locator EXCEPT !.pc = "returned"]
  /\ UNCHANGED <<engineVars, blockObj, txObj>>

\* the caller has the list (or the error); the engine is free again
LocatorTaken ==
  /\ locator.pc \in {"returned", "raised"}
  /\ locator' = NoCall
  /\ UNCHANGED <<engineVars, blockObj, txObj>>

(* --------------------------- the Block object ------------------------- *)
\* a buffer is a sequence of integers; a 32-byte hash is a buffer too
NULL_HASH == <<0>>
NoId == <<>>

\* double SHA-256: no two buffers have the same hash
sha256sha256(buf) == <<0 - 1>> \o buf \o <<0 - 2>>

\* transaction.js 77-79
txGetHash(tx) == <<TxId(tx)>>

\* block.js 216-226
getTransactionHashes(txs) ==
  IF Len(txs) = 0 THEN <<NULL_HASH>>
  ELSE [t \in 1..Len(txs) |-> txGetHash(txs[t])]

\* faulty variant: an odd tail is not paired with itself
RECURSIVE merkleLevelWithoutDuplication(_, _, _, _)
merkleLevelWithoutDuplication(tree, j, size, i) ==
  IF ~(i < size) THEN tree
  ELSE LET i2 == i + 1
           buf == tree[j + i + 1] \o tree[j + i2 + 1]
       IN merkleLevelWithoutDuplication(Append(tree, sha256sha256(buf)), j, size, i + 2)

\* block.js 239-243: the inner loop; tree is 1-based here
RECURSIVE merkleLevel(_, _, _, _)
merkleLevel(tree, j, size, i) ==
  IF ~(i < size) THEN tree
  ELSE LET i2 == IF i + 1 < size - 1 THEN i + 1 ELSE size - 1
           buf == tree[j + i + 1] \o tree[j + i2 + 1]
       IN merkleLevel(Append(tree, sha256sha256(buf)), j, size, i + 2)

\* block.js 237-245: the outer loop
RECURSIVE merkleLevels(_, _, _)
merkleLevels(tree, j, size) ==
  IF size > 1
  THEN merkleLevels(merkleLevel(tree, j, size, 0), j + size, (size + 1) \div 2)
  ELSE tree

\* block.js 233-247
getMerkleTree(txs) == merkleLevels(getTransactionHashes(txs), 0, Len(txs))

\* block.js 253-258
getMerkleRoot(txs) ==
  LET tree == getMerkleTree(txs) IN tree[Len(tree)]

\* blockheader.js 216-228
headerToBuffer(header) ==
  <<header.version, header.height, header.time, header.bits>>
    \o header.prevHash \o header.merkleRoot \o <<header.nonce>>

\* blockheader.js 259-262
headerGetHash(header) == sha256sha256(headerToBuffer(header))

\* blockheader.js 264-279: the getter of id and hash
idGet(header) ==
  LET filled == IF header.id = NoId
                THEN [header EXCEPT !.id = Reverse(headerGetHash(header))]
                ELSE header
  IN [header |-> filled, value |-> filled.id]

\* blockheader.js 88-91
increaseNonce(header) == [header EXCEPT !.id = NoId, !.nonce = @ + 1]

\* block.js 276-280
addTransaction(block, tx) ==
  LET txs == Append(block.transactions, tx)
  IN [header |-> [block.header EXCEPT !.merkleRoot = getMerkleRoot(txs)],
      transactions |-> txs]

\* block.js 22-32, blockheader.js 130-146: a block made from a header
\* without a merkle root and no transaction
NewBlock ==
  [header |-> [version |-> CURRENT_VERSION, height |-> 0, time |-> 0,
               bits |-> DEFAULT_BITS, prevHash |-> NULL_HASH,
               merkleRoot |-> getMerkleRoot(<<>>), nonce |-> 0, id |-> NoId],
   transactions |-> <<>>]

\* the transactions a caller adds to the block
BlockTxs ==
  {[input |-> NULL, position |-> [x |-> 0, y |-> 0], owner |-> k,
    signature |-> NoSig] : k \in Keys}

BlockAddTransaction ==
  /\ Len(blockObj.transactions) < MaxBlockTxs
  /\ \E tx \in BlockTxs : blockObj' = addTransaction(blockObj, tx)
  /\ ret' = [op |-> "addTransaction", status |-> "returned", known |-> FALSE]
  /\ UNCHANGED <<idx, emitted, blockStore, txStore, locator, txObj>>

HeaderIncreaseNonce ==
  /\ blockObj.header.nonce < MaxNonce
  /\ blockObj' = [blockObj EXCEPT !.header = increaseNonce(@)]
  /\ ret' = [op |-> "increaseNonce", status |-> "returned", known |-> FALSE]
  /\ UNCHANGED <<idx, emitted, blockStore, txStore, locator, txObj>>

BlockReadId ==
  /\ blockObj' = [blockObj EXCEPT !.header = idGet(@).header]
  /\ ret' = [op |-> "id", status |-> "returned", known |-> FALSE]
  /\ UNCHANGED <<idx, emitted, blockStore, txStore, locator, txObj>>

NextBlock == BlockAddTransaction \/ HeaderIncreaseNonce \/ BlockReadId

(* ------------------------ the Transaction object ---------------------- *)
\* a Buffer held by a transaction: which object it is, and its bytes.
\* The only Buffer whose identity matters is the shared BufferUtil.NULL_HASH;
\* every Buffer made by new Buffer(...) or by a reader is another object
NullHashBuffer == [ref |-> "NULL_HASH", bytes |-> NULL]
NewBuffer(bytes) == [ref |-> "new", bytes |-> bytes]

\* transaction.js 236-245; previous is the set holding _previous when it
\* is set, owner is NoOwner for null, signature is NoSig for no signature
newTransaction ==
  [input |-> NullHashBuffer, position |-> [x |-> 0, y |-> 0],
   owner |-> NoOwner, signature |-> NoSig, previous |-> {}]

\* the fields the serialization of a transaction is made of
txFields(t) ==
  [input |-> t.input.bytes, position |-> t.position, owner |-> t.owner,
   signature |-> t.signature]

\* transaction.js 253-257: from() with the id of a transaction, a string
fromId(t, hex) == [t EXCEPT !.input = NewBuffer(hex)]

\* transaction.js 258-265: from() with a Transaction
fromTransaction(t, prior) ==
  [t EXCEPT !.position = prior.position,
            !.previous = {prior},
            !.input = NewBuffer(TxId(prior))]

\* transaction.js 274-281
to(t, owner) == [t EXCEPT !.owner = owner]

\* transaction.js 293-300: at(x, y)
txAt(t, x, y) ==
  IF t.previous # {} THEN [tx |-> t, threw |-> TRUE]
  ELSE [tx |-> [t EXCEPT !.position = [x |-> x, y |-> y]], threw |-> FALSE]

\* the signature the private key makes over the sighash digest of tx
SighashSign(tx, privateKey) == privateKey

\* faulty variant: the signature is verified against the new owner
isValidSignatureAgainstOwner(t, signature) ==
  IF t.previous = {} THEN "threw"
  ELSE IF \E prior \in t.previous : prior.owner = NoOwner THEN "threw"
  ELSE IF SighashVerify(txFields(t), signature, t.owner) THEN "valid"
  ELSE "invalid"

\* transaction.js 352-357
isValidSignature(t, signature) ==
  IF t.previous = {} THEN "threw"
  ELSE IF \E prior \in t.previous : prior.owner = NoOwner THEN "threw"
  ELSE IF \E prior \in t.previous :
            SighashVerify(txFields(t), signature, prior.owner) THEN "valid"
  ELSE "invalid"

\* faulty variant: the signature is stored before it is checked
applySignatureStoringFirst(t, signature) ==
  IF signature = NoSig \/ isValidSignature(t, signature) # "valid"
  THEN [tx |-> [t EXCEPT !.signature = signature], threw |-> TRUE]
  ELSE [tx |-> [t EXCEPT !.signature = signature], threw |-> FALSE]

\* transaction.js 341-346
applySignature(t, signature) ==
  IF signature = NoSig \/ isValidSignature(t, signature) # "valid"
  THEN [tx |-> t, threw |-> TRUE]
  ELSE [tx |-> [t EXCEPT !.signature = signature], threw |-> FALSE]

\* transaction.js 315-333: sign and getSignature, with one private key
sign(t, privateKey) == applySignature(t, SighashSign(txFields(t), privateKey))

\* transaction.js 317-323: sign with an array of private keys signs with
\* each in turn; the first error ends the call
RECURSIVE signEach(_, _, _)
signEach(t, keys, i) ==
  IF i > Len(keys) THEN [tx |-> t, threw |-> FALSE]
  ELSE LET r == sign(t, keys[i])
       IN IF r.threw THEN r ELSE signEach(r.tx, keys, i + 1)

\* transaction.js 58-61, 148-190: the transaction is written to a buffer
\* and read back into a new object; the owner is written only when set,
\* and reading a public key where none was written fails
shallowCopy(t) ==
  IF t.owner = NoOwner THEN [tx |-> t, threw |-> TRUE]
  ELSE [tx |-> [newTransaction EXCEPT !.input = NewBuffer(t.input.bytes),
                                      !.position = t.position,
                                      !.owner = t.owner,
                                      !.signature = t.signature],
        threw |-> FALSE]

\* transaction.js 199-224: toObject, then fromObject on a new transaction;
\* toObject calls owner.toObject() and does not write the signature
viaObject(t) ==
  IF t.owner = NoOwner THEN [tx |-> t, threw |-> TRUE]
  ELSE [tx |-> [newTransaction EXCEPT !.input = NewBuffer(t.input.bytes),
                                      !.position = t.position,
                                      !.owner = t.owner],
        threw |-> FALSE]

\* transaction.js 359-361: === on two Buffers compares the objects
isCoinbase(t) == t.input.ref = NullHashBuffer.ref

\* the transactions a caller passes to from(), and the ids it passes
PriorTxs ==
  {[input |-> NULL, position |-> [x |-> MaxX, y |-> MaxY], owner |-> k,
    signature |-> NoSig] : k \in Keys \cup {NoOwner}}
PriorIds == {NULL} \cup {TxId(prior) : prior \in PriorTxs}

\* what ret records of a call on the transaction
Called(name, threw) ==
  [op |-> name, status |-> IF threw THEN "raised" ELSE "returned", known |-> FALSE]

TxNew ==
  /\ txObj' = newTransaction
  /\ ret' = Called("Transaction", FALSE)
  /\ UNCHANGED <<idx, emitted, blockStore, txStore, locator, blockObj>>

TxFromId ==
  /\ \E hex \in PriorIds : txObj' = fromId(txObj, hex)
  /\ ret' = Called("from", FALSE)
  /\ UNCHANGED <<idx, emitted, blockStore, txStore, locator, blockObj>>

TxFromTransaction ==
  /\ \E prior \in PriorTxs : txObj' = fromTransaction(txObj, prior)
  /\ ret' = Called("from", FALSE)
  /\ UNCHANGED <<idx, emitted, blockStore, txStore, locator, blockObj>>

TxTo ==
  /\ \E k \in Keys : txObj' = to(txObj, k)
  /\ ret' = Called("to", FALSE)
  /\ UNCHANGED <<idx, emitted, blockStore, txStore, locator, blockObj>>

TxAt ==
  /\ \E p \in Positions :
        LET r == txAt(txObj, p.x, p.y)
        IN txObj' = r.tx /\ ret' = Called("at", r.threw)
  /\ UNCHANGED <<idx, emitted, blockStore, txStore, locator, blockObj>>

TxSign ==
  /\ \E k \in Keys :
        LET r == sign(txObj, k)
        IN txObj' = r.tx /\ ret' = Called("sign", r.threw)
  /\ UNCHANGED <<idx, emitted, blockStore, txStore, locator, blockObj>>

TxSignEach ==
  /\ \E keys \in {<<>>} \cup (Keys \X Keys) :
        LET r == signEach(txObj, keys, 1)
        IN txObj' = r.tx /\ ret' = Called("sign(keys)", r.threw)
  /\ UNCHANGED <<idx, emitted, blockStore, txStore, locator, blockObj>>

TxShallowCopy ==
  /\ LET r == shallowCopy(txObj)
     IN txObj' = r.tx /\ ret' = Called("shallowCopy", r.threw)
  /\ UNCHANGED <<idx, emitted, blockStore, txStore, locator, blockObj>>

TxViaObject ==
  /\ LET r == viaObject(txObj)
     IN txObj' = r.tx /\ ret' = Called("fromObject", r.threw)
  /\ UNCHANGED <<idx, emitted, blockStore, txStore, locator, blockObj>>

NextTx ==
  \/ TxNew
  \/ TxFromId
  \/ TxFromTransaction
  \/ TxTo
  \/ TxAt
  \/ TxSign
  \/ TxSignEach
  \/ TxShallowCopy
  \/ TxViaObject

(* ------------------------------- inputs ------------------------------- *)
MinerKeys == {1}
RecipientKeys == Keys \ MinerKeys

Coinbases ==
  {[input |-> NULL, position |-> p, owner |-> k, signature |-> NoSig] :
      p \in Positions, k \in MinerKeys}

\* the transaction a transfer at position p would spend, given the list of
\* transactions before it in the block
Spendable(txs, p) ==
  LET earlier == {j \in 1..Len(txs) : txs[j].position = p}
  IN IF earlier # {}
     THEN {txs[CHOOSE j \in earlier : \A k \in earlier : k <= j]}
     ELSE IF posToString(p) \in DOMAIN pixels THEN {pixels[posToString(p)]}
     ELSE {}

Transfers(txs) ==
  UNION {{[input |-> i, position |-> p, owner |-> k, signature |-> s] :
             i \in {NULL} \cup {TxId(t) : t \in Spendable(txs, p)},
             k \in RecipientKeys, s \in Sigs} : p \in Positions}

\* the transaction lists that start with coinbase and carry at most n transfers
RECURSIVE TxLists(_, _)
TxLists(coinbase, n) ==
  IF n <= 0 THEN {<<coinbase>>}
  ELSE LET shorter == TxLists(coinbase, n - 1)
       IN shorter \cup UNION {{Append(l, t) : t \in Transfers(l)} :
                                 l \in {q \in shorter : Len(q) = n}}

StoredTransfers ==
  LET counts == [h \in DOMAIN blockStore |->
                   IF Len(blockStore[h].transactions) = 0 THEN 0
                   ELSE Len(blockStore[h].transactions) - 1]
      Sum[S \in SUBSET DOMAIN blockStore] ==
        IF S = {} THEN 0
        ELSE LET h == CHOOSE q \in S : TRUE IN counts[h] + Sum[S \ {h}]
  IN Sum[DOMAIN blockStore]

FreshHash == Cardinality(DOMAIN blockStore) + 1

NewBlocks ==
  {[hash |-> FreshHash, prevHash |-> ph, height |-> hf, transactions |-> txs] :
      ph \in {NULL, UnknownHash} \cup DOMAIN blockStore,
      hf \in HeightFields,
      txs \in {<<>>} \cup
              UNION {TxLists(cb, MaxTransfers - StoredTransfers) : cb \in Coinbases}}

KnownBlocks == Range(blockStore)

Init ==
  /\ tip = NULL
  /\ work = Put(<<>>, NULL, 0)
  /\ height = Put(<<>>, NULL, 0 - 1)
  /\ hashByHeight = Put(<<>>, 0 - 1, NULL)
  /\ next = <<>>
  /\ prev = <<>>
  /\ prevKeys = <<>>
  /\ pixels = <<>>
  /\ blockStore = <<>>
  /\ txStore = <<>>
  /\ ret = [op |-> "new", status |-> "returned", known |-> FALSE]
  /\ locator = NoCall
  /\ blockObj = NewBlock
  /\ txObj = newTransaction
  /\ emitted = <<>>

ProposeNew ==
  /\ Cardinality(DOMAIN blockStore) < MaxBlocks
  /\ \E block \in NewBlocks : ProposeNewBlock(block)

ProposeKnown == \E block \in KnownBlocks : ProposeNewBlock(block)

Next == ProposeNew \/ ProposeKnown

Spec == Init /\ [][Next]_vars

\* the four mutation entry points, called in any order by one writer;
\* the blocks proposed here carry their coinbase only, and their header
\* says height 0 exactly when they have no parent
PlainBlocks ==
  {b \in NewBlocks : Len(b.transactions) = 1 /\ (b.height = 0 <=> b.prevHash = NULL)}

ProposePlain ==
  /\ Cardinality(DOMAIN blockStore) < MaxBlocks
  /\ \E block \in PlainBlocks : ProposeNewBlock(block)

ConfirmKnown == \E block \in KnownBlocks : Confirm(block)

UnconfirmKnown == \E hash \in DOMAIN blockStore : Unconfirm(hash)

NextAPI == ProposePlain \/ ProposeKnown \/ ConfirmKnown \/ UnconfirmKnown \/ Prune

SpecAPI == Init /\ [][NextAPI]_vars

(* --------------------- the locator of a long chain -------------------- *)
\* the next block of a chain that mines along the line y = 0: it extends
\* the tip and its coinbase is adjacent to the pixel mined last
LineBlock ==
  LET n == Cardinality(DOMAIN blockStore)
  IN [hash |-> FreshHash, prevHash |-> tip, height |-> n,
      transactions |-> <<[input |-> NULL, position |-> [x |-> n, y |-> 0],
                          owner |-> 1, signature |-> NoSig]>>]

GrowLine ==
  /\ locator.pc = "idle"
  /\ Cardinality(DOMAIN blockStore) < MaxLocatorBlocks
  /\ ProposeNewBlock(LineBlock)

NextLocator ==
  \/ GrowLine
  \/ GetBlockLocatorCall
  \/ LocatorFor
  \/ LocatorWhile
  \/ LocatorReturn
  \/ LocatorTaken

\* a call runs to completion: nothing interleaves with it
SpecLocator ==
  /\ Init
  /\ [][NextLocator]_vars
  /\ WF_vars(LocatorFor)
  /\ WF_vars(LocatorWhile)
  /\ WF_vars(LocatorReturn)

(* ------------------------ a long side branch -------------------------- *)
\* a main chain mined along the line y = 0, then a branch that forks off
\* the first block and is mined along y = 1; the main chain stops growing
\* once the branch has started
BranchStarted == \E h \in DOMAIN blockStore : h \notin DOMAIN height

MainBlock ==
  LET n == Cardinality(DOMAIN blockStore)
  IN [hash |-> FreshHash, prevHash |-> tip, height |-> n,
      transactions |-> <<[input |-> NULL, position |-> [x |-> n, y |-> 0],
                          owner |-> 1, signature |-> NoSig]>>]

\* the next block of the branch: the j-th one is at height j, its parent
\* is the one before it (the first block of the main chain for j = 1) and
\* it mines the pixel above the one the main chain mined at height j - 1
BranchBlock ==
  LET main == Cardinality({h \in DOMAIN blockStore : h \in DOMAIN height})
      j == FreshHash - main
  IN [hash |-> FreshHash,
      prevHash |-> IF BranchStarted THEN FreshHash - 1 ELSE 1,
      height |-> j,
      transactions |-> <<[input |-> NULL, position |-> [x |-> j - 1, y |-> 1],
                          owner |-> 2, signature |-> NoSig]>>]

GrowMain ==
  /\ ~BranchStarted
  /\ Cardinality(DOMAIN blockStore) < MaxMainBlocks
  /\ ProposeNewBlock(MainBlock)

GrowBranch ==
  /\ Cardinality(DOMAIN blockStore) >= 2
  /\ Cardinality(DOMAIN blockStore) <
       2 * Cardinality({h \in DOMAIN blockStore : h \in DOMAIN height})
  /\ ProposeNewBlock(BranchBlock)

NextRewind == GrowMain \/ GrowBranch

SpecRewind == Init /\ [][NextRewind]_vars

SpecBlock == Init /\ [][NextBlock]_vars

SpecTx == Init /\ [][NextTx]_vars

(* ------------------- vocabulary of the properties --------------------- *)
\* the blocks a caller can propose in the current state
Proposable == NewBlocks \cup KnownBlocks

\* a call admitted its block: it got past validation and wrote to the store
Admitted(r) == r.status # "rejected"

\* hashes from the first block to h, following prev
RECURSIVE PathTo(_, _)
PathTo(pv, h) ==
  IF h \notin DOMAIN pv THEN <<>> ELSE Append(PathTo(pv, pv[h]), h)

ActiveChain == PathTo(prev, tip)

RECURSIVE Concat(_, _, _)
Concat(store, chain, i) ==
  IF i > Len(chain) THEN <<>>
  ELSE store[chain[i]].transactions \o Concat(store, chain, i + 1)

LastIndexAt(txs, p) ==
  LET at == {i \in 1..Len(txs) : txs[i].position = p}
  IN IF at = {} THEN 0 ELSE CHOOSE i \in at : \A j \in at : j <= i

\* the pixel map a list of transactions folds to
Fold(txs) ==
  LET touched == {txs[i].position : i \in 1..Len(txs)}
  IN [k \in {posToString(p) : p \in touched} |->
        LET p == CHOOSE q \in touched : posToString(q) = k
        IN txs[LastIndexAt(txs, p)]]

Abs(n) == IF n < 0 THEN 0 - n ELSE n
Manhattan(k, p) == Abs(k[1] - p.x) + Abs(k[2] - p.y)

\* the holder transaction i of a block spends: the latest earlier
\* transaction of the block at its position, otherwise the pixel's holder
Holder(txs, i) ==
  LET p == txs[i].position
      j == LastIndexAt(SubSeq(txs, 1, i - 1), p)
  IN IF j > 0 THEN {txs[j]}
     ELSE IF posToString(p) \in DOMAIN pixels THEN {pixels[posToString(p)]}
     ELSE {}

\* C1: the pixel map is the fold of the transactions of the active chain,
\* genesis to tip: each position holds the last transaction at it, and no
\* other position is present
C1_PixelsAreFoldOfActiveChain ==
  pixels = Fold(Concat(blockStore, ActiveChain, 1))

C1_Witness ==
  /\ Len(ActiveChain) >= 2
  /\ Cardinality(DOMAIN blockStore) > Len(ActiveChain)
  /\ \E k \in DOMAIN pixels : pixels[k].signature # NoSig

\* C3: between calls no recorded block has more cumulative work than the tip
C3_TipHasMaxWork ==
  \A h \in DOMAIN work : ~Greater(work[h], Get(work, tip))

\* C4: a block admitted with more work than the tip on another branch
\* becomes the tip, and the call returns the old branch newest first and
\* the new branch oldest first
C4_ReorgSwitchesBranch ==
  \A b \in Proposable :
    LET r == proposeNewBlock(Engine, b)
        old == ActiveChain
        new == PathTo(r.e.prev, b.hash)
        common == {n \in 0..Len(old) :
                     n <= Len(new) /\ SubSeq(old, 1, n) = SubSeq(new, 1, n)}
        c == CHOOSE n \in common : \A m \in common : m <= n
    IN (Admitted(r) /\ Greater(Get(r.e.work, b.hash), Get(work, tip))
                    /\ c < Len(old))
       => /\ r.status = "returned"
          /\ r.unconfirmed = Reverse(SubSeq(old, c + 1, Len(old)))
          /\ r.confirmed = SubSeq(new, c + 1, Len(new))
          /\ r.e.tip = b.hash
          /\ r.e.pixels = Fold(Concat(r.e.blockStore, new, 1))

\* the reasons C5 lists for a block to fail validation
UnknownParent(b) == Get(work, b.prevHash) = UNDEF
CoinbaseMined(b) ==
  Len(b.transactions) > 0 /\ posToString(b.transactions[1].position) \in DOMAIN pixels
CoinbaseNotAdjacent(b) ==
  /\ Len(b.transactions) > 0
  /\ b.height # 0
  /\ ~\E k \in DOMAIN pixels : Manhattan(k, b.transactions[1].position) = 1
NoHolder(b) ==
  \E i \in 2..Len(b.transactions) : Holder(b.transactions, i) = {}
BadSignature(b) ==
  \E i \in 2..Len(b.transactions) :
     \E t \in Holder(b.transactions, i) :
        b.transactions[i].signature # t.owner
FailsValidity(b) ==
  \/ UnknownParent(b)
  \/ CoinbaseMined(b)
  \/ CoinbaseNotAdjacent(b)
  \/ NoHolder(b)
  \/ BadSignature(b)

\* C5: proposing a block that fails validation (unknown parent, coinbase
\* pixel already mined, coinbase not adjacent, signature mismatch, transfer
\* of a pixel nobody holds) is rejected and changes nothing: neither the
\* index maps, nor the pixel map, nor the two stores
C5_InvalidBlockChangesNothing ==
  \A b \in Proposable :
    FailsValidity(b) =>
      LET r == proposeNewBlock(Engine, b)
      IN r.status = "rejected" /\ r.e = Engine

C5_Witness ==
  /\ ret.status = "rejected"
  /\ ~ret.known
  /\ Cardinality(DOMAIN blockStore) >= 2
  /\ \E b \in NewBlocks : BadSignature(b) /\ ~UnknownParent(b) /\ ~CoinbaseMined(b)

\* C6: an admitted block that has a parent mines a pixel at Manhattan
\* distance 1 from a pixel present when it is proposed
C6_CoinbaseAdjacentUnlessGenesis ==
  \A b \in Proposable :
    (Admitted(proposeNewBlock(Engine, b)) /\ b.prevHash # NULL)
      => \E k \in DOMAIN pixels : Manhattan(k, b.transactions[1].position) = 1

\* C7: no block is admitted whose first transaction is at a position that
\* is present in the pixel map when the block is proposed
C7_NeverReMinesLivePixel ==
  \A b \in Proposable :
    CoinbaseMined(b) => ~Admitted(proposeNewBlock(Engine, b))

C7_Witness ==
  /\ ret.status = "rejected"
  /\ ret.known
  /\ Len(ActiveChain) >= 2
  /\ \A h \in DOMAIN blockStore : h \in DOMAIN height

C9_AdmittedInputsNameTheHolder ==
  \A b \in Proposable :
    Admitted(proposeNewBlock(Engine, b)) =>
      \A i \in 2..Len(b.transactions) :
         /\ b.transactions[i].input # NULL
         /\ \A t \in Holder(b.transactions, i) : b.transactions[i].input = TxId(t)

\* C10: proposing a block that is already in the store changes neither
\* tip, work, prev, height, next, hashByHeight nor pixels, whether the block
\* is on the active chain or on a side branch
C10_ReproposingChangesNothing ==
  \A b \in KnownBlocks :
    LET r == proposeNewBlock(Engine, b)
    IN /\ r.e.tip = tip
       /\ r.e.work = work
       /\ r.e.prev = prev
       /\ r.e.height = height
       /\ r.e.next = next
       /\ r.e.hashByHeight = hashByHeight
       /\ r.e.pixels = pixels

C10_Witness ==
  /\ ret.known
  /\ ret.status = "returned"
  /\ \E h \in DOMAIN blockStore : h \notin DOMAIN height
  /\ Len(ActiveChain) >= 1

\* the number of prev steps from h to NULL, or -1 when the walk leaves prev
RECURSIVE StepsToNull(_, _)
StepsToNull(h, n) ==
  IF h = NULL THEN n
  ELSE IF h \notin DOMAIN prev THEN 0 - 1
  ELSE StepsToNull(prev[h], n + 1)

\* C2: every hash with a height is the hash recorded at that height, and
\* the walk along prev from the tip reaches NULL in height[tip] + 1 steps
C2_ActiveChainConsistent ==
  /\ \A h \in DOMAIN height : Get(hashByHeight, height[h]) = h
  /\ StepsToNull(tip, 0) = Plus(Get(height, tip), 1)

\* the transaction store after the transactions of b are saved in it
WithTransactions(store, b) ==
  [k \in DOMAIN store \cup {TxId(b.transactions[i]) : i \in 1..Len(b.transactions)} |->
      IF \E i \in 1..Len(b.transactions) : TxId(b.transactions[i]) = k
      THEN b.transactions[CHOOSE i \in 1..Len(b.transactions) :
                            /\ TxId(b.transactions[i]) = k
                            /\ \A j \in 1..Len(b.transactions) :
                                  TxId(b.transactions[j]) = k => j <= i]
      ELSE store[k]]

\* C11: a call that admits a block whose cumulative work is not more than
\* the tip's (a tie included) returns two empty lists and leaves tip,
\* height, next, hashByHeight and pixels as they were; prev, work and the
\* two stores change only by the entries of the block
C11_NoMoreWorkChangesOnlyTheBlockEntries ==
  \A b \in Proposable :
    LET r == proposeNewBlock(Engine, b)
    IN (Admitted(r) /\ ~Greater(Get(r.e.work, b.hash), Get(work, tip)))
       => /\ r.status = "returned"
          /\ r.unconfirmed = <<>>
          /\ r.confirmed = <<>>
          /\ r.e.tip = tip
          /\ r.e.height = height
          /\ r.e.next = next
          /\ r.e.hashByHeight = hashByHeight
          /\ r.e.pixels = pixels
          /\ r.e.prev = Put(prev, b.hash, b.prevHash)
          /\ r.e.work = Put(work, b.hash, work[b.prevHash] + 1)
          /\ r.e.blockStore = Put(blockStore, b.hash, b)
          /\ r.e.txStore = WithTransactions(txStore, b)

C11_Witness ==
  LET h == Cardinality(DOMAIN blockStore)
  IN /\ ret.op = "proposeNewBlock"
     /\ ret.status = "returned"
     /\ ~ret.known
     /\ h >= 2
     /\ h # tip
     /\ work[h] = work[tip]

\* C12: confirming a valid block that extends the tip and then unconfirming
\* it restores tip, height, next, hashByHeight and pixels to their values
\* just before the confirm: a pixel the block minted is gone again, a pixel
\* it transferred is back with its earlier holder
C12_UnconfirmUndoesConfirm ==
  \A b \in NewBlocks :
    (isValidBlock(Engine, b) /\ b.prevHash = tip) =>
      LET before == addHashReferences(saveBlockToStore(Engine, b), b)
          c == confirm(before, b)
          u == unconfirm(c.e, b.hash)
      IN /\ ~c.threw
         /\ ~u.threw
         /\ u.e.tip = before.tip
         /\ u.e.height = before.height
         /\ u.e.next = before.next
         /\ u.e.hashByHeight = before.hashByHeight
         /\ u.e.pixels = before.pixels

\* C13: prune() keeps the prev and work entries of every block that has a
\* height, the genesis block at height 0 included, and leaves tip, height,
\* next, hashByHeight and pixels as they were
C13_PruneKeepsActiveChainEntries ==
  LET p == prune(Engine)
  IN /\ \A h \in DOMAIN blockStore :
          h \in DOMAIN height =>
             /\ Get(p.prev, h) = Get(prev, h)
             /\ Get(p.work, h) = Get(work, h)
     /\ p.tip = tip
     /\ p.height = height
     /\ p.next = next
     /\ p.hashByHeight = hashByHeight
     /\ p.pixels = pixels

RECURSIVE Pow2(_)
Pow2(n) == IF n <= 0 THEN 1 ELSE 2 * Pow2(n - 1)

\* the list a locator call returned, against the chain it was taken from
LocatorListed ==
  LET result == locator.result
      top == Get(height, tip)
      recent == IF top + 1 < 10 THEN top + 1 ELSE 10
      h(i) == Get(height, result[i])
  IN /\ Len(ActiveChain) > 0 => Len(result) > 0 /\ result[1] = tip
     /\ Len(result) >= recent
     /\ \A i \in 1..recent : result[i] = Get(hashByHeight, top - (i - 1))
     /\ \A i \in 1..Len(result) :
           /\ result[i] \in DOMAIN blockStore
           /\ \E j \in 1..Len(ActiveChain) : ActiveChain[j] = result[i]
     /\ \A i \in 1..(Len(result) - 1) : h(i + 1) < h(i)
     /\ Len(result) > 10 => h(11) = h(10) - 1
     /\ \A i \in 11..(Len(result) - 1) : h(i) - h(i + 1) = Pow2(i - 11)

\* C14: a getBlockLocator call ends, and the list it returns starts with
\* the tip, holds the hashes at the 10 most recent heights (all of them
\* when the chain is shorter) in descending order, then hashes whose
\* heights are 1, 2, 4, 8, ... apart; every entry is a block of the active
\* chain and the heights strictly decrease
C14_LocatorListsRecentThenBackOff ==
  /\ [](locator.pc = "returned" => LocatorListed)
  /\ [](locator.pc \in {"for", "while"} => <>(locator.pc = "returned"))

C14_Witness ==
  /\ locator.pc = "returned"
  /\ Len(locator.result) >= 14

\* C15: the engine restored from a snapshot has the same tip, work, prev,
\* height, next and hashByHeight as the engine the snapshot was taken of,
\* its pixel map is the fold of the active chain, and it admits and
\* rejects every block as the original does
C15_RestoredEngineBehavesAlike ==
  LET restored == fromObject(toObject(Engine))
  IN /\ restored.tip = tip
     /\ restored.work = work
     /\ restored.prev = prev
     /\ restored.height = height
     /\ restored.next = next
     /\ restored.hashByHeight = hashByHeight
     /\ restored.pixels = Fold(Concat(blockStore, ActiveChain, 1))
     /\ \A b \in NewBlocks :
           Admitted(proposeNewBlock(restored, b)) = Admitted(proposeNewBlock(Engine, b))

\* C16: reading id gives the display hash of the header as it is now,
\* after any sequence of id reads, increaseNonce calls and addTransaction
\* calls
C16_IdIsHashOfCurrentHeader ==
  idGet(blockObj.header).value = Reverse(headerGetHash(blockObj.header))

\* the parents of one level of a Merkle tree: a level of m nodes has
\* ceil(m / 2) parents, and an odd tail is paired with itself
ParentLevel(level) ==
  LET m == Len(level)
  IN [i \in 1..((m + 1) \div 2) |->
        sha256sha256(level[2 * i - 1] \o level[IF 2 * i <= m THEN 2 * i ELSE m])]

RECURSIVE ReduceToRoot(_)
ReduceToRoot(level) ==
  IF Len(level) = 1 THEN level[1] ELSE ReduceToRoot(ParentLevel(level))

ReferenceRoot(txs) ==
  IF Len(txs) = 0 THEN NULL_HASH
  ELSE ReduceToRoot([t \in 1..Len(txs) |-> txGetHash(txs[t])])

\* C20: getMerkleRoot gives the all-zero hash for no transaction, the
\* hash of the transaction for one, and otherwise the node the level by
\* level reduction ends with; the root the header carries is that root
C20_MerkleRootIsReferenceRoot ==
  /\ getMerkleRoot(blockObj.transactions) = ReferenceRoot(blockObj.transactions)
  /\ blockObj.header.merkleRoot = ReferenceRoot(blockObj.transactions)

C20_Witness ==
  /\ ret.op = "addTransaction"
  /\ Len(blockObj.transactions) = 5
  /\ blockObj.transactions[5] # blockObj.transactions[4]

\* C17: isCoinbase() is true exactly when the input of the transaction is
\* the all-zero hash, however the transaction was obtained: constructed,
\* built with from(), decoded from bytes or built from an object
C17_IsCoinbaseIffInputAllZero ==
  isCoinbase(txObj) <=> txObj.input.bytes = NULL

\* C18: once from() has been called, with a Transaction or with the id of
\* one, a call of at(x, y) is rejected and the position stays as it was
C18_AtRejectedAfterFrom ==
  \A p \in Positions :
    /\ \A prior \in PriorTxs :
          LET t == fromTransaction(txObj, prior)
              r == txAt(t, p.x, p.y)
          IN r.threw /\ r.tx.position = t.position
    /\ \A hex \in PriorIds :
          LET t == fromId(txObj, hex)
              r == txAt(t, p.x, p.y)
          IN r.threw /\ r.tx.position = t.position

\* C19: a transaction built with from(t0), t0 owned by the public half of
\* a key pair, is signed by sign() with the private half: the call
\* succeeds, the signature is set, and it verifies against the public
\* half over the sighash digest of the signed transaction
C19_SignRoundTrip ==
  \A prior \in PriorTxs :
    prior.owner \in Keys =>
      LET t == fromTransaction(txObj, prior)
          r == sign(t, prior.owner)
      IN /\ ~r.threw
         /\ r.tx.signature # NoSig
         /\ SighashVerify(txFields(r.tx), r.tx.signature, prior.owner)
         /\ r.tx.previous = {prior}

C19_Witness ==
  /\ ret.op = "sign"
  /\ ret.status = "returned"
  /\ txObj.signature # NoSig
  /\ txObj.owner \in Keys
  /\ \E prior \in txObj.previous : prior.owner # txObj.owner

\* the events a step from one active chain to another owes the listeners:
\* one per block that left the chain, the tip first, then one per block
\* that joined it, the lowest first
Owed(old, new) ==
  LET common == {n \in 0..Len(old) :
                   n <= Len(new) /\ SubSeq(old, 1, n) = SubSeq(new, 1, n)}
      c == CHOOSE n \in common : \A m \in common : m <= n
      left == Reverse(SubSeq(old, c + 1, Len(old)))
      joined == SubSeq(new, c + 1, Len(new))
  IN [i \in 1..Len(left) |-> [name |-> "unconfirmed", hash |-> left[i]]]
       \o [i \in 1..Len(joined) |-> [name |-> "confirmed", hash |-> joined[i]]]

\* C21: every call that unconfirms or confirms blocks has, when it is over,
\* emitted one unconfirmed event per block unconfirmed, the tip first, then
\* one confirmed event per block confirmed, the lowest first, and nothing
\* else is emitted
C21_TransitionsAreNotified ==
  [][emitted' = emitted \o Owed(ActiveChain, ActiveChain')]_vars

\* C22: confirm of a block whose recorded parent prev[block.hash] is not
\* the tip raises an error and leaves tip, height, next, hashByHeight and
\* pixels as they were
C22_ConfirmRequiresParentIsTip ==
  \A b \in KnownBlocks :
    Get(prev, b.hash) # tip =>
      LET r == confirm(Engine, b)
      IN /\ r.threw
         /\ r.e.tip = tip
         /\ r.e.height = height
         /\ r.e.next = next
         /\ r.e.hashByHeight = hashByHeight
         /\ r.e.pixels = pixels

\* the number of blocks of the active chain above the point where the
\* chain of b leaves it
ForkDepth(b) ==
  LET old == ActiveChain
      new == PathTo(prev, b.prevHash)
      common == {n \in 0..Len(old) :
                   n <= Len(new) /\ SubSeq(old, 1, n) = SubSeq(new, 1, n)}
  IN Len(old) - (CHOOSE n \in common : \A m \in common : m <= n)

\* C23: no proposeNewBlock call takes more than MAX_REWIND blocks off the
\* active chain, and a block that has more work than the tip and whose
\* chain leaves the active chain more than MAX_REWIND blocks below the tip
\* does not become the tip: the call raises and tip, height, next,
\* hashByHeight and pixels stay as they were
C23_NoRewindDeeperThanMaxRewind ==
  LET b == BranchBlock
      r == proposeNewBlock(Engine, b)
  IN /\ Cardinality({h \in DOMAIN height : h \notin DOMAIN r.e.height}) <= MAX_REWIND
     /\ Len(r.unconfirmed) <= MAX_REWIND
     /\ (Admitted(r) /\ ForkDepth(b) > MAX_REWIND
                     /\ Greater(Get(r.e.work, b.hash), Get(work, tip)))
        => /\ r.status = "raised"
           /\ r.e.tip = tip
           /\ r.e.height = height
           /\ r.e.next = next
           /\ r.e.hashByHeight = hashByHeight
           /\ r.e.pixels = pixels

C23_Witness ==
  LET last == Cardinality(DOMAIN blockStore)
  IN /\ ret.op = "proposeNewBlock"
     /\ ret.status = "raised"
     /\ Len(ActiveChain) > MAX_REWIND + 1
     /\ last \notin DOMAIN height
     /\ Greater(Get(work, last), Get(work, tip))
     /\ Len(PathTo(prev, last)) - Len(ActiveChain) = 1
     /\ PathTo(prev, last)[2] # ActiveChain[2]

\* C24: on a chain of at least one block, of any height, the list a
\* getBlockLocator call returns ends with the hash at height zero
C24_LocatorEndsAtGenesis ==
  (locator.pc = "returned" /\ Len(ActiveChain) > 0)
    => /\ Len(locator.result) > 0
       /\ locator.result[Len(locator.result)] = Get(hashByHeight, 0)

\* block b with the input of its first transaction replaced by i
WithFirstInput(b, i) ==
  IF Len(b.transactions) = 0 THEN b
  ELSE [b EXCEPT !.transactions[1].input = i]

\* C25: every admitted block has a first transaction, and its input is the
\* null hash; a block without transactions, or whose first transaction
\* names the id of a stored transaction as its input, is rejected
C25_AdmittedBlockStartsWithCoinbase ==
  \A b \in NewBlocks :
    \A i \in {NULL} \cup DOMAIN txStore :
      LET candidate == WithFirstInput(b, i)
      IN Admitted(proposeNewBlock(Engine, candidate))
           => /\ Len(candidate.transactions) > 0
              /\ candidate.transactions[1].input = NULL

\* the engine that was proposed the blocks of path, in that order
RECURSIVE Replay(_, _, _, _)
Replay(e, store, path, i) ==
  IF i > Len(path) THEN e
  ELSE Replay(proposeNewBlock(e, store[path[i]]).e, store, path, i + 1)

\* a second engine, which was proposed the ancestors of b and nothing else
AncestorEngine(b) == Replay(NewBlockchain, blockStore, PathTo(prev, b.prevHash), 1)

\* C26: an engine that knows other blocks besides the ancestors of a block,
\* and may have another tip, admits the block exactly when the engine that
\* was proposed its ancestors only admits it
C26_AnswerDependsOnAncestorsOnly ==
  \A b \in NewBlocks :
    LET other == AncestorEngine(b)
        path == PathTo(prev, b.prevHash)
    IN (\A i \in 1..Len(path) : path[i] \in DOMAIN other.blockStore)
         => (Admitted(proposeNewBlock(Engine, b))
               <=> Admitted(proposeNewBlock(other, b)))

\* C27: after any sequence of proposeNewBlock calls the pixel map has
\* height[tip] + 1 positions; a call that admits a block adds no position
\* but the one its first transaction mines, and when the block becomes the
\* tip that position is new
C27_OnePixelPerActiveBlock ==
  /\ Cardinality(DOMAIN pixels) = Plus(Get(height, tip), 1)
  /\ \A b \in Proposable :
       LET r == proposeNewBlock(Engine, b)
           mined == posToString(b.transactions[1].position)
       IN Admitted(r) =>
            /\ DOMAIN r.e.pixels \subseteq DOMAIN pixels \cup {mined}
            /\ r.e.tip # tip =>
                 /\ mined \notin DOMAIN pixels
                 /\ DOMAIN r.e.pixels = DOMAIN pixels \cup {mined}

C27_Witness ==
  /\ ret.op = "proposeNewBlock"
  /\ Len(ActiveChain) >= 2
  /\ Cardinality(DOMAIN pixels) = Len(ActiveChain)
  /\ Cardinality(DOMAIN blockStore) > Len(ActiveChain)
  /\ \E i \in 1..Len(ActiveChain) :
        LET txs == blockStore[ActiveChain[i]].transactions
        IN Len(txs) >= 2 /\ txs[2].position # txs[1].position

====
